---- MODULE Spec2Model ----
(***************************************************************************)
(* A model of invoice_generator.py: one run of main(), from the parsed     *)
(* command line to the process exit.  The state is the command line, the   *)
(* configuration file on disk, the output files, the loaded configuration, *)
(* the derived invoice values, the log and the exit status.                *)
(*                                                                         *)
(* Numbers.  A JSON number or a parsed float is kept as an integer number  *)
(* of thousandths (rate 19.99 is 19990); the CLI units are kept in tenths  *)
(* (2.5 is 25).  Amounts are kept in units of 10^-5 so that units * rate   *)
(* and 20% of it are exact.  The float NaN is a value of its own.  The     *)
(* inputs are chosen so that no formatted amount lies on a rounding tie,   *)
(* where binary floating point and decimal arithmetic could differ.        *)
(***************************************************************************)
EXTENDS Integers, Sequences, FiniteSets, TLC

\* How many input fields may differ from the baseline run at once.
MaxDeviations == 2

(***************************************************************************)
(* JSON values as json.load returns them.  A list is kept by its length    *)
(* and by whether all its elements are strings: the program only takes     *)
(* its length, indexes it, iterates it and joins it.                       *)
(***************************************************************************)
JV(k, s, n, l, e) == [kind |-> k, str |-> s, num |-> n, len |-> l, strs |-> e]

Absent == JV("absent", "", 0, 0, TRUE)

Null == JV("null", "", 0, 0, TRUE)

Bool(b) == JV("bool", "", IF b THEN 1 ELSE 0, 0, TRUE)

Num(milli) == JV("number", "", milli, 0, TRUE)

NaN == JV("nan", "", 0, 0, TRUE)

Str(s) == JV("string", s, 0, 0, TRUE)

List(n, e) == JV("list", "", 0, n, e)

(***************************************************************************)
(* Python's view of a value.                                               *)
(***************************************************************************)
\* isinstance(v, (int, float)): bool is a subclass of int.
is_number(v) == v.kind \in {"number", "nan", "bool"}

\* v <= 0 for a value that is_number: every comparison with NaN is False.
le_zero(v) == v.kind \in {"number", "bool"} /\ v.num <= 0

\* isinstance(v, list)
is_list(v) == v.kind = "list"

\* bool(v), the test of "if include_vat:"
truthy(v) ==
    CASE v.kind = "bool" -> v.num = 1
      [] v.kind = "number" -> v.num # 0
      [] v.kind = "nan" -> TRUE
      [] v.kind = "string" -> v.str # ""
      [] v.kind = "list" -> v.len > 0
      [] OTHER -> FALSE

\* hash(v) succeeds: a list is unhashable.
hashable(v) == v.kind # "list"

\* float(v) in thousandths, for a value that is_number; [nan, v].
to_float(v) ==
    CASE v.kind = "number" -> [nan |-> FALSE, v |-> v.num]
      [] v.kind = "bool" -> [nan |-> FALSE, v |-> v.num * 1000]
      [] OTHER -> [nan |-> TRUE, v |-> 0]

\* config.get(key, default): the default only for a missing key.
get(v, default) == IF v.kind = "absent" THEN default ELSE v

(***************************************************************************)
(* Strings of the command line, as sequences of characters.                *)
(***************************************************************************)
RECURSIVE lstrip(_)
lstrip(s) == IF s # <<>> /\ Head(s) = " " THEN lstrip(Tail(s)) ELSE s

RECURSIVE rstrip(_)
rstrip(s) ==
    IF s # <<>> /\ s[Len(s)] = " " THEN rstrip(SubSeq(s, 1, Len(s) - 1)) ELSE s

\* str.strip()
strip(s) == rstrip(lstrip(s))

(***************************************************************************)
(* The inputs of a run: the command line (main's parser), the              *)
(* configuration file, and whether the output file exists already.         *)
(***************************************************************************)
Baseline ==
    [ config_path     |-> "config.json",
      number          |-> <<"7">>,
      date            |-> <<"d">>,
      units           |-> [parsed |-> TRUE, tenths |-> 100],
      file            |-> "object",
      existing        |-> FALSE,
      company_name    |-> Str("Acme"),
      company_address |-> List(2, TRUE),
      bank_details    |-> List(1, TRUE),
      client_name     |-> Str("Client"),
      client_address  |-> List(1, TRUE),
      rate            |-> Num(50000),
      currency        |-> Absent,
      unit_of_work    |-> Absent,
      include_vat     |-> Absent ]

AltNumber == {<<>>, <<" ">>, <<" ", "7">>, <<"8">>}

AltDate == {<<>>, <<" ", " ">>, <<"d", " ">>}

\* "abc" is no float: argparse rejects it.
AltUnits ==
    {[parsed |-> FALSE, tenths |-> 0], [parsed |-> TRUE, tenths |-> 0],
     [parsed |-> TRUE, tenths |-> -10], [parsed |-> TRUE, tenths |-> 10],
     [parsed |-> TRUE, tenths |-> 30]}

\* The file is missing, cannot be read, is no JSON, or holds a JSON scalar.
AltFile == {"absent", "unreadable", "malformed", "scalar"}

AltName == {Absent, Num(42000)}

AltCompanyAddress ==
    {Absent, List(0, TRUE), List(1, TRUE), List(3, TRUE), List(2, FALSE),
     Str("1 Main St")}

AltLines == {Absent, List(0, TRUE), List(2, TRUE), List(1, FALSE), Str("x")}

AltRate ==
    {Absent, Num(-5000), Num(0), Num(126), Num(19990), NaN, Bool(TRUE),
     Bool(FALSE), Str("50")}

AltCurrency ==
    {Str("USD"), Str("GBP"), Str("EUR"), Str("JPY"), Null, List(1, TRUE)}

AltUnitOfWork ==
    {Str("HOURLY"), Str("DAILY"), Str("WEEKLY"), Str("MONTHLY"), Str("daily"),
     Num(5000)}

AltIncludeVat == {Bool(TRUE), Bool(FALSE), Str("false"), Null}

\* The inputs one field away from b.
Deviate(b) ==
    {[b EXCEPT !.config_path = ""], [b EXCEPT !.existing = TRUE]}
    \cup {[b EXCEPT !.number = v] : v \in AltNumber}
    \cup {[b EXCEPT !.date = v] : v \in AltDate}
    \cup {[b EXCEPT !.units = v] : v \in AltUnits}
    \cup {[b EXCEPT !.file = v] : v \in AltFile}
    \cup {[b EXCEPT !.company_name = v] : v \in AltName}
    \cup {[b EXCEPT !.company_address = v] : v \in AltCompanyAddress}
    \cup {[b EXCEPT !.bank_details = v] : v \in AltLines}
    \cup {[b EXCEPT !.client_name = v] : v \in AltName}
    \cup {[b EXCEPT !.client_address = v] : v \in AltLines}
    \cup {[b EXCEPT !.rate = v] : v \in AltRate}
    \cup {[b EXCEPT !.currency = v] : v \in AltCurrency}
    \cup {[b EXCEPT !.unit_of_work = v] : v \in AltUnitOfWork}
    \cup {[b EXCEPT !.include_vat = v] : v \in AltIncludeVat}

\* Runs that pass every validation, over all the values the invoice is
\* computed from.
Billable ==
    {[Baseline EXCEPT !.rate = r, !.units = u, !.include_vat = i,
                      !.currency = c, !.unit_of_work = w, !.existing = x] :
        r \in {Num(50000), Num(19990), Num(126)},
        u \in {[parsed |-> TRUE, tenths |-> t] : t \in {100, 10, 30}},
        i \in {Absent, Bool(TRUE), Bool(FALSE)},
        c \in {Absent} \cup (AltCurrency \ {List(1, TRUE)}),
        w \in {Absent} \cup AltUnitOfWork,
        x \in BOOLEAN}

\* Every invoice number of the inputs: the output files are named by it.
Numbers == {<<"7">>} \cup AltNumber

VARIABLES
    input,        \* the run's inputs, fixed
    pc,           \* where main() is
    fs,           \* the output files, by invoice number: none, old, new, partial
    config,       \* what load_config returned
    loaded,       \* whether load_config has returned
    model,        \* generate_invoice's locals of lines 74-101
    table,        \* data = [headers, row] and amount_due_text
    log,          \* the records logged
    exit_status,  \* -1 while running
    ran           \* the steps of main() that have run

vars == <<input, pc, fs, config, loaded, model, table, log, exit_status, ran>>

(***************************************************************************)
(* The log and the exceptions.                                             *)
(***************************************************************************)
Entry(level, msg, detail, field) ==
    [level |-> level, msg |-> msg, detail |-> detail, field |-> field]

\* What a function raises: nothing, or an exception of a type with a message.
NoError == [type |-> "", detail |-> "", field |-> ""]

Raise(type, detail, field) == [type |-> type, detail |-> detail, field |-> field]

\* validate_arguments without its last check: units <= 0 pass.
validate_arguments_units_unchecked(args) ==
    IF args.config_path = ""
    THEN Raise("ValueError", "Configuration file path is required", "")
    ELSE IF args.number = <<>> \/ strip(args.number) = <<>>
    THEN Raise("ValueError", "Invoice number cannot be empty", "")
    ELSE IF args.date = <<>> \/ strip(args.date) = <<>>
    THEN Raise("ValueError", "Invoice date cannot be empty", "")
    ELSE NoError

(***************************************************************************)
(* validate_arguments                                                      *)
(***************************************************************************)
validate_arguments(args) ==
    IF args.config_path = ""
    THEN Raise("ValueError", "Configuration file path is required", "")
    ELSE IF args.number = <<>> \/ strip(args.number) = <<>>
    THEN Raise("ValueError", "Invoice number cannot be empty", "")
    ELSE IF args.date = <<>> \/ strip(args.date) = <<>>
    THEN Raise("ValueError", "Invoice date cannot be empty", "")
    ELSE IF args.units.tenths <= 0
    THEN Raise("ValueError", "Units must be greater than 0", "")
    ELSE NoError

\* required_fields with bank_details listed before company_address.
required_fields_reordered ==
    << "company_name", "bank_details", "company_address",
       "client_name", "client_address", "rate" >>

(***************************************************************************)
(* validate_config and load_config                                         *)
(***************************************************************************)
required_fields ==
    << "company_name", "company_address", "bank_details",
       "client_name", "client_address", "rate" >>

\* The document of the configuration file, as json.load returns it.
document(in) ==
    [ company_name    |-> in.company_name,
      company_address |-> in.company_address,
      bank_details    |-> in.bank_details,
      client_name     |-> in.client_name,
      client_address  |-> in.client_address,
      rate            |-> in.rate,
      currency        |-> in.currency,
      unit_of_work    |-> in.unit_of_work,
      include_vat     |-> in.include_vat ]

NoConfig == document([f \in DOMAIN Baseline |-> Absent])

\* The loop of lines 53-55: the first required field that is not in config.
first_missing(doc) ==
    LET missing == {i \in 1..Len(required_fields) :
                        doc[required_fields[i]].kind = "absent"}
    IN  IF missing = {} THEN ""
        ELSE required_fields[CHOOSE i \in missing : \A j \in missing : i <= j]

rate_check(doc) == ~is_number(doc.rate) \/ le_zero(doc.rate)

company_address_check(doc) ==
    ~is_list(doc.company_address) \/ doc.company_address.len < 2

client_address_check(doc) ==
    ~is_list(doc.client_address) \/ doc.client_address.len < 1

bank_details_check(doc) ==
    ~is_list(doc.bank_details) \/ doc.bank_details.len < 1

\* validate_config with the rate checked before the fields' presence.
validate_config_rate_first(doc) ==
    IF doc.rate.kind # "absent" /\ rate_check(doc)
    THEN Raise("ValueError", "Rate must be a positive number", "")
    ELSE IF first_missing(doc) # ""
    THEN Raise("ValueError", "Missing required configuration field",
               first_missing(doc))
    ELSE IF company_address_check(doc)
    THEN Raise("ValueError",
               "Company address must be a list with at least 2 lines", "")
    ELSE IF client_address_check(doc)
    THEN Raise("ValueError",
               "Client address must be a list with at least 1 line", "")
    ELSE IF bank_details_check(doc)
    THEN Raise("ValueError",
               "Bank details must be a list with at least 1 line", "")
    ELSE NoError

validate_config(doc) ==
    IF first_missing(doc) # ""
    THEN Raise("ValueError", "Missing required configuration field",
               first_missing(doc))
    ELSE IF rate_check(doc)
    THEN Raise("ValueError", "Rate must be a positive number", "")
    ELSE IF company_address_check(doc)
    THEN Raise("ValueError",
               "Company address must be a list with at least 2 lines", "")
    ELSE IF client_address_check(doc)
    THEN Raise("ValueError",
               "Client address must be a list with at least 1 line", "")
    ELSE IF bank_details_check(doc)
    THEN Raise("ValueError",
               "Bank details must be a list with at least 1 line", "")
    ELSE NoError

\* The body of load_config's try: what it raises for a file in state `file`
\* holding `doc`.
load_raises(file, doc) ==
    CASE file = "absent" ->
            Raise("FileNotFoundError", "Configuration file not found", "")
      [] file = "unreadable" -> Raise("OSError", "cannot open", "")
      [] file = "malformed" -> Raise("JSONDecodeError", "invalid JSON", "")
      [] file = "scalar" ->
            Raise("TypeError", "argument of type is not iterable", "")
      [] OTHER -> validate_config(doc)

\* load_config's except clauses: the record logged before sys.exit(1).
load_logs(e) ==
    CASE e.type = "JSONDecodeError" ->
            Entry("ERROR", "Invalid JSON in configuration file", e.detail, "")
      [] e.type = "FileNotFoundError" -> Entry("ERROR", e.detail, "", "")
      [] OTHER ->
            Entry("ERROR", "Error loading configuration", e.detail, e.field)

\* main's except clauses: ValueError first, then Exception.
main_logs(e) ==
    IF e.type = "ValueError"
    THEN Entry("ERROR", "Invalid argument", e.detail, e.field)
    ELSE Entry("ERROR", "Unexpected error", e.detail, e.field)

(***************************************************************************)
(* generate_invoice, lines 74-101: the values derived from the             *)
(* configuration.                                                          *)
(***************************************************************************)
\* currency_symbols.get(currency, '$'): the lookup hashes its key first.
\* "GBP-sign" and "EUR-sign" stand for the pound and the euro sign.
get_currency_symbol(currency) ==
    IF ~hashable(currency)
    THEN [raises |-> Raise("TypeError", "unhashable type", ""), symbol |-> ""]
    ELSE [raises |-> NoError,
          symbol |-> CASE currency = Str("USD") -> "$"
                       [] currency = Str("GBP") -> "GBP-sign"
                       [] currency = Str("EUR") -> "EUR-sign"
                       [] OTHER -> "$"]

\* unit_labels without the MONTHLY branch.
unit_labels_no_monthly(unit_of_work) ==
    CASE unit_of_work = Str("DAILY") -> <<"Number of Days", "Daily Rate">>
      [] unit_of_work = Str("WEEKLY") -> <<"Number of Weeks", "Weekly Rate">>
      [] OTHER -> <<"Number of Hours", "Hourly Rate">>

\* The if/elif chain of lines 85-96: <<unit_header, rate_header>>.
unit_labels(unit_of_work) ==
    CASE unit_of_work = Str("DAILY") -> <<"Number of Days", "Daily Rate">>
      [] unit_of_work = Str("WEEKLY") -> <<"Number of Weeks", "Weekly Rate">>
      [] unit_of_work = Str("MONTHLY") -> <<"Number of Months", "Monthly Rate">>
      [] OTHER -> <<"Number of Hours", "Hourly Rate">>

\* hours * rate: tenths times thousandths, in units of 10^-5.
times(tenths, rate) == [nan |-> rate.nan, v |-> tenths * rate.v * 10]

\* amount * 0.2
vat_of(amount) == [nan |-> amount.nan, v |-> (amount.v * 2) \div 10]

\* a + b
plus(a, b) == [nan |-> a.nan \/ b.nan, v |-> a.v + b.v]

\* n / d rounded to the nearest integer, a tie to the even one.
RECURSIVE round_half_even(_, _)
round_half_even(n, d) ==
    IF n < 0 THEN 0 - round_half_even(0 - n, d)
    ELSE LET q == n \div d
             r == n % d
         IN  IF 2 * r > d \/ (2 * r = d /\ q % 2 = 1) THEN q + 1 ELSE q

\* f"{currency_symbol}{x:.2f}": the symbol and the cents, or "nan".
Cell(kind, text, tenths, sym, nan, cents) ==
    [kind |-> kind, text |-> text, tenths |-> tenths, sym |-> sym,
     nan |-> nan, cents |-> cents]

fmt2(sym, x) ==
    Cell("money", "", 0, sym, x.nan,
         IF x.nan THEN 0 ELSE round_half_even(x.v, 1000))

Text(s) == Cell("text", s, 0, "", FALSE, 0)

Units(tenths) == Cell("units", "", tenths, "", FALSE, 0)

\* The rate, a float in thousandths, in the amounts' unit.
as_amount(rate) == [nan |-> rate.nan, v |-> rate.v * 100]

NoModel ==
    [ rate |-> [nan |-> FALSE, v |-> 0], currency_symbol |-> "",
      unit_header |-> "", rate_header |-> "", include_vat |-> Absent,
      total_amount |-> [nan |-> FALSE, v |-> 0], file_name |-> <<>> ]

\* Lines 74-101 for a loaded configuration.
build_model(cfg, number, units) ==
    [ rate            |-> to_float(cfg.rate),
      currency_symbol |->
          get_currency_symbol(get(cfg.currency, Str("USD"))).symbol,
      unit_header     |->
          unit_labels(get(cfg.unit_of_work, Str("HOURLY")))[1],
      rate_header     |->
          unit_labels(get(cfg.unit_of_work, Str("HOURLY")))[2],
      include_vat     |-> get(cfg.include_vat, Bool(FALSE)),
      total_amount    |-> times(units.tenths, to_float(cfg.rate)),
      file_name       |-> number ]

(***************************************************************************)
(* generate_invoice, lines 103-234: the elements of the document.          *)
(***************************************************************************)
\* Lines 168-172.
headers_of(m) ==
    <<"Description", m.unit_header, m.rate_header>>
    \o (IF truthy(m.include_vat)
        THEN <<"Amount", "VAT (20%)", "Total Amount">>
        ELSE <<"Total Amount">>)

\* Line 174.
amount_excl_vat(m, units) == times(units.tenths, m.rate)

\* total_amount_of adding the amounts as they are shown, each rounded to
\* the cent.
total_amount_of_rounded(m, units) ==
    IF truthy(m.include_vat)
    THEN [nan |-> m.rate.nan,
          v   |-> 1000 * (round_half_even(amount_excl_vat(m, units).v, 1000)
                    + round_half_even(vat_of(amount_excl_vat(m, units)).v,
                                      1000))]
    ELSE m.total_amount

\* Lines 182-183 under "if include_vat:", line 100 otherwise.
total_amount_of(m, units) ==
    IF truthy(m.include_vat)
    THEN plus(amount_excl_vat(m, units), vat_of(amount_excl_vat(m, units)))
    ELSE m.total_amount

\* row_of without the extension of lines 184-187.
row_of_not_extended(m, units) ==
    << Text("Consulting Services"), Units(units.tenths),
       fmt2(m.currency_symbol, as_amount(m.rate)),
       fmt2(m.currency_symbol, amount_excl_vat(m, units)) >>

\* Lines 175-187.
row_of(m, units) ==
    << Text("Consulting Services"), Units(units.tenths),
       fmt2(m.currency_symbol, as_amount(m.rate)),
       fmt2(m.currency_symbol, amount_excl_vat(m, units)) >>
    \o (IF truthy(m.include_vat)
        THEN << fmt2(m.currency_symbol, vat_of(amount_excl_vat(m, units))),
                fmt2(m.currency_symbol, total_amount_of(m, units)) >>
        ELSE <<>>)

\* Line 221: the amount after "Amount Due: ".
amount_due_of(m, units) == fmt2(m.currency_symbol, total_amount_of(m, units))

NoTable ==
    [headers |-> <<>>, row |-> <<>>, amount_due |-> Text(""), built |-> FALSE]

\* '<br/>'.join(lines) raises TypeError for an element that is no string.
join_raises(lines) == ~lines.strs

\* Paragraph(text, style) is given something that is no string: what the
\* layout library does then is not this program's code.
paragraph_misused(cfg) ==
    cfg.company_name.kind # "string" \/ ~cfg.company_address.strs

(***************************************************************************)
(* The run of main().                                                      *)
(***************************************************************************)
\* The output files before the run.
initial_fs(in) == [n \in Numbers |-> IF in.existing THEN "old" ELSE "none"]

\* The run's inputs are b, or at most k fields away from b.
RECURSIVE Deviations(_, _)
Deviations(b, k) ==
    input = b \/ (k > 0 /\ \E d \in Deviate(b) : Deviations(d, k - 1))

Init ==
    /\ Deviations(Baseline, MaxDeviations) \/ input \in Billable
    /\ pc = "parse_args"
    /\ fs = initial_fs(input)
    /\ config = NoConfig
    /\ loaded = FALSE
    /\ model = NoModel
    /\ table = NoTable
    /\ log = <<>>
    /\ exit_status = -1
    /\ ran = {}

\* logging.error(...) followed by sys.exit(1).
ErrorExit(entry) ==
    /\ log' = Append(log, entry)
    /\ exit_status' = 1
    /\ pc' = "exit"

\* parser.parse_args(): argparse ends the process with status 2 when the
\* units are no float, before logging is set up.
ParseArgs ==
    /\ pc = "parse_args"
    /\ ran' = ran \cup {"parse_args"}
    /\ IF input.units.parsed
       THEN pc' = "validate_arguments" /\ exit_status' = exit_status
       ELSE pc' = "exit" /\ exit_status' = 2
    /\ UNCHANGED <<input, fs, config, loaded, model, table, log>>

\* validate_arguments(args) inside main's try.
ValidateArguments ==
    /\ pc = "validate_arguments"
    /\ ran' = ran \cup {"validate_arguments"}
    /\ LET e == validate_arguments(input)
       IN  IF e = NoError
           THEN pc' = "load_config" /\ UNCHANGED <<log, exit_status>>
           ELSE ErrorExit(main_logs(e))
    /\ UNCHANGED <<input, fs, config, loaded, model, table>>

\* config = load_config(config_file)
LoadConfig ==
    /\ pc = "load_config"
    /\ ran' = ran \cup {"load_config"}
    /\ LET e == load_raises(input.file, document(input))
       IN  IF e = NoError
           THEN /\ config' = document(input)
                /\ loaded' = TRUE
                /\ pc' = "build_model"
                /\ UNCHANGED <<log, exit_status>>
           ELSE /\ ErrorExit(load_logs(e))
                /\ UNCHANGED <<config, loaded>>
    /\ UNCHANGED <<input, fs, model, table>>

\* Lines 74-101.  The currency lookup of line 82 may raise, which main's
\* "except Exception" catches.
BuildModel ==
    /\ pc = "build_model"
    /\ ran' = ran \cup {"build_model"}
    /\ LET e == get_currency_symbol(get(config.currency, Str("USD"))).raises
       IN  IF e = NoError
           THEN /\ model' = build_model(config, input.number, input.units)
                /\ pc' = "build_elements"
                /\ UNCHANGED <<log, exit_status>>
           ELSE /\ ErrorExit(main_logs(e))
                /\ UNCHANGED model
    /\ UNCHANGED <<input, fs, config, loaded, table>>

\* Lines 103-234.  SimpleDocTemplate(file_name) opens no file.  A Paragraph
\* given a non-string may raise, of a type main logs either way; the joins
\* of lines 162 and 220 raise TypeError for a non-string element.
BuildElements ==
    /\ pc = "build_elements"
    /\ ran' = ran \cup {"build_elements"}
    /\ \E lib_raises \in BOOLEAN, lib_type \in {"ValueError", "Exception"} :
         IF paragraph_misused(config) /\ lib_raises
         THEN /\ ErrorExit(main_logs(Raise(lib_type, "Paragraph", "")))
              /\ UNCHANGED <<model, table>>
         ELSE IF join_raises(config.client_address)
                 \/ join_raises(config.bank_details)
         THEN /\ ErrorExit(main_logs(Raise("TypeError", "join", "")))
              /\ UNCHANGED <<model, table>>
         ELSE /\ table' = [ headers    |-> headers_of(model),
                            row        |-> row_of(model, input.units),
                            amount_due |-> amount_due_of(model, input.units),
                            built      |-> TRUE ]
              /\ model' = [model EXCEPT
                             !.total_amount = total_amount_of(model, input.units)]
              /\ pc' = "doc_build"
              /\ UNCHANGED <<log, exit_status>>
    /\ UNCHANGED <<input, fs, config, loaded>>

\* build_status without the sys.exit(1) of line 241.
build_status_no_exit(outcome) == 0

\* The exit status after doc.build: sys.exit(1) in the except clause,
\* otherwise main returns.
build_status(outcome) == IF outcome = "written" THEN 0 ELSE 1

\* The output file after doc.build: a failed build may leave the file as it
\* was or leave a part of it.
file_after(outcome, before) ==
    CASE outcome = "written" -> "new"
      [] outcome = "failed_partial" -> "partial"
      [] OTHER -> before

\* Lines 236-241: doc.build(elements) writes the file.
DocBuild ==
    /\ pc = "doc_build"
    /\ ran' = ran \cup {"doc_build"}
    /\ \E outcome \in {"written", "failed", "failed_partial"} :
         /\ fs' = [fs EXCEPT ![model.file_name] =
                       file_after(outcome, fs[model.file_name])]
         /\ log' = Append(log,
                IF outcome = "written"
                THEN Entry("INFO", "generated successfully", "", "")
                ELSE Entry("ERROR", "Error generating PDF", "", ""))
         /\ exit_status' = build_status(outcome)
         /\ pc' = "exit"
    /\ UNCHANGED <<input, config, loaded, model, table>>

Next ==
    \/ ParseArgs
    \/ ValidateArguments
    \/ LoadConfig
    \/ BuildModel
    \/ BuildElements
    \/ DocBuild

Spec == Init /\ [][Next]_vars

(***************************************************************************)
(* The properties.  What they say of the inputs is stated on the inputs    *)
(* themselves, not through the operators of the program above.             *)
(***************************************************************************)
\* A string that is empty after trimming.
Blank(str) == \A i \in 1..Len(str) : str[i] = " "

\* The command line passes the checks the specification lists.
ArgsPass ==
    /\ input.config_path # ""
    /\ ~Blank(input.number)
    /\ ~Blank(input.date)
    /\ input.units.parsed
    /\ input.units.tenths > 0

\* The required keys, in the order the specification lists them.
SixKeys ==
    << "company_name", "company_address", "bank_details",
       "client_name", "client_address", "rate" >>

MissingKeys == {i \in 1..Len(SixKeys) : input[SixKeys[i]].kind = "absent"}

FirstMissingKey ==
    SixKeys[CHOOSE i \in MissingKeys : \A j \in MissingKeys : i <= j]

HasError == \E i \in DOMAIN log : log[i].level = "ERROR"

\* C1: the output file invoice_<number>.pdf is created or overwritten only
\* after validate_arguments and load_config have both succeeded: a file that
\* differs from what it was before the run is the file named by the invoice
\* number, both steps have run, and none of the listed failures (blank
\* number or date, units <= 0, file missing or no JSON, a missing field, a
\* rate <= 0, a list too short) holds of the inputs.
C1_WriteOnlyAfterValidation ==
    \A n \in Numbers :
        fs[n] # initial_fs(input)[n] =>
            /\ n = input.number
            /\ {"validate_arguments", "load_config", "doc_build"} \subseteq ran
            /\ ArgsPass
            /\ loaded
            /\ input.file = "object"
            /\ MissingKeys = {}
            /\ ~(input.rate.kind = "number" /\ input.rate.num <= 0)
            /\ input.company_address.kind = "list"
            /\ input.company_address.len >= 2
            /\ input.client_address.kind = "list"
            /\ input.client_address.len >= 1
            /\ input.bank_details.kind = "list"
            /\ input.bank_details.len >= 1

\* C1's case: an existing output file has been overwritten.
C1_Witness == pc = "exit" /\ input.existing /\ fs[input.number] = "new"

\* C2: the exit status is 0 exactly when argument validation, the loading
\* of the configuration and doc.build all succeeded; an error is logged at
\* most once, it ends the process with a nonzero status, and no later step
\* runs after a step has failed.
C2_ExitStatus ==
    /\ pc # "exit" => exit_status = -1 /\ ~HasError
    /\ pc = "exit" =>
          /\ exit_status \in {0, 1, 2}
          /\ exit_status = 0 <=>
                /\ ArgsPass
                /\ loaded
                /\ "doc_build" \in ran
                /\ fs[input.number] = "new"
                /\ ~HasError
    /\ HasError => Len(log) = 1 /\ pc = "exit" /\ exit_status = 1
    /\ "validate_arguments" \in ran /\ ~ArgsPass => "load_config" \notin ran
    /\ "load_config" \in ran /\ ~loaded => "build_model" \notin ran
    /\ "build_elements" \in ran /\ ~table.built => "doc_build" \notin ran

\* C2's case: doc.build has failed and the process has ended with status 1.
C2_Witness ==
    /\ pc = "exit"
    /\ exit_status = 1
    /\ log = <<Entry("ERROR", "Error generating PDF", "", "")>>

\* C3: loading a configuration object that lacks a required key fails with
\* the validation error naming a missing key, the first missing one in the
\* order company_name, company_address, bank_details, client_name,
\* client_address, rate; no configuration is returned.
C3_MissingFieldNamed ==
    ("load_config" \in ran /\ input.file = "object" /\ MissingKeys # {}) =>
        /\ ~loaded
        /\ config = NoConfig
        /\ exit_status = 1
        /\ log = << Entry("ERROR", "Error loading configuration",
                          "Missing required configuration field",
                          FirstMissingKey) >>
        /\ input[log[1].field].kind = "absent"

\* C3's case: two required keys are missing and the load has failed.
C3_Witness ==
    /\ "load_config" \in ran
    /\ input.file = "object"
    /\ Cardinality(MissingKeys) >= 2
    /\ input.company_name.kind # "absent"

\* C4, as claimed: a configuration that load_config returns has a rate that
\* is a number > 0 (a boolean counted as the integer it is in Python), a
\* company_address of at least 2 lines, a client_address and bank_details
\* of at least 1 line.
C4_ReturnedConfigIsValid ==
    loaded =>
        /\ config.rate.kind \in {"number", "bool"}
        /\ config.rate.num > 0
        /\ config.company_address.kind = "list"
        /\ config.company_address.len >= 2
        /\ config.client_address.kind = "list"
        /\ config.client_address.len >= 1
        /\ config.bank_details.kind = "list"
        /\ config.bank_details.len >= 1

\* A required field that is present with a value of the wrong type.
WrongType ==
    \/ input.company_name.kind \notin {"absent", "string"}
    \/ input.client_name.kind \notin {"absent", "string"}
    \/ input.rate.kind \notin {"absent", "number", "nan"}
    \/ \E f \in {"company_address", "client_address", "bank_details"} :
          /\ input[f].kind # "absent"
          /\ input[f].kind # "list" \/ ~input[f].strs

\* C5, as claimed: loading a configuration in which a required field holds
\* a value of the wrong type fails instead of returning a configuration.
C5_WrongTypeRejected ==
    ("load_config" \in ran /\ input.file = "object" /\ WrongType) => ~loaded

\* The one record load_config logs for the earliest failing check, in the
\* order existence, parse, presence, rate, company_address, client_address,
\* bank_details; <<>> when no check fails.
EarliestFailure ==
    LET doc == document(input)
        failed(detail, field) ==
            <<Entry("ERROR", "Error loading configuration", detail, field)>>
    IN  IF input.file = "absent"
        THEN <<Entry("ERROR", "Configuration file not found", "", "")>>
        ELSE IF input.file = "unreadable" THEN failed("cannot open", "")
        ELSE IF input.file = "malformed"
        THEN << Entry("ERROR", "Invalid JSON in configuration file",
                      "invalid JSON", "") >>
        ELSE IF input.file = "scalar"
        THEN failed("argument of type is not iterable", "")
        ELSE IF MissingKeys # {}
        THEN failed("Missing required configuration field", FirstMissingKey)
        ELSE IF rate_check(doc)
        THEN failed("Rate must be a positive number", "")
        ELSE IF company_address_check(doc)
        THEN failed("Company address must be a list with at least 2 lines", "")
        ELSE IF client_address_check(doc)
        THEN failed("Client address must be a list with at least 1 line", "")
        ELSE IF bank_details_check(doc)
        THEN failed("Bank details must be a list with at least 1 line", "")
        ELSE <<>>

\* C6: load_config reports exactly one failure, the earliest in the order
\* file existence, JSON parse, presence of the six fields, then the checks
\* of rate, company_address, client_address and bank_details; a missing
\* field is reported before a shape violation of another field.
C6_EarliestFailureReported ==
    "load_config" \in ran =>
        IF EarliestFailure = <<>>
        THEN loaded /\ (ran = {"parse_args", "validate_arguments",
                               "load_config"} => log = <<>>)
        ELSE ~loaded /\ log = EarliestFailure /\ exit_status = 1

\* C6's case: client_name is missing and the rate is not positive, and the
\* missing field is what was reported.
C6_Witness ==
    /\ "load_config" \in ran
    /\ input.client_name.kind = "absent"
    /\ input.rate = Num(-5000)
    /\ log # <<>>
    /\ log[1].field = "client_name"

\* The rate of the loaded configuration, in thousandths.
RateMilli ==
    IF config.rate.kind = "bool" THEN 1000 * config.rate.num
    ELSE config.rate.num

\* units * rate in units of 10^-5.
Subtotal == input.units.tenths * RateMilli * 10

\* C7: for an accepted configuration and positive units the total shown as
\* Amount Due is units * rate when include_vat is false or absent, and
\* units * rate plus exactly 20% of it (subtotal * 1.2) when include_vat is
\* true; the total is kept unrounded and rounded to two decimals only in the
\* formatted text.  (A rate of NaN gives the amount NaN.)
C7_AmountDue ==
    table.built =>
        IF config.rate.kind = "nan"
        THEN table.amount_due.nan /\ model.total_amount.nan
        ELSE /\ ~table.amount_due.nan
             /\ ~model.total_amount.nan
             /\ table.amount_due.kind = "money"
             /\ table.amount_due.cents =
                    round_half_even(model.total_amount.v, 1000)
             /\ config.include_vat \in {Absent, Bool(FALSE)} =>
                    model.total_amount.v = Subtotal
             /\ config.include_vat = Bool(TRUE) =>
                    /\ 5 * (model.total_amount.v - Subtotal) = Subtotal
                    /\ 10 * model.total_amount.v = 12 * Subtotal

\* C7's case: VAT is included, and the rounded total differs from the sum
\* of the rounded subtotal and the rounded VAT.
C7_Witness ==
    /\ table.built
    /\ config.include_vat = Bool(TRUE)
    /\ table.amount_due.cents # table.row[4].cents + table.row[5].cents

\* C8: the table has one header row and one data row of equal length: with
\* include_vat true, 6 columns (Description, unit label, rate label, Amount,
\* VAT (20%), Total Amount; Consulting Services, units, rate, subtotal, VAT,
\* total); with include_vat false or absent, 4 columns ending in Total
\* Amount and the subtotal; the last cell of the row is the amount the
\* footer shows as Amount Due.
C8_TableShape ==
    table.built =>
        LET sym == model.currency_symbol
            sub == [nan |-> model.rate.nan, v |-> Subtotal]
            vat == [nan |-> model.rate.nan, v |-> Subtotal \div 5]
        IN  /\ Len(table.headers) = Len(table.row)
            /\ table.row[Len(table.row)] = table.amount_due
            /\ SubSeq(table.headers, 1, 3) =
                   <<"Description", model.unit_header, model.rate_header>>
            /\ SubSeq(table.row, 1, 4) =
                   << Text("Consulting Services"), Units(input.units.tenths),
                      fmt2(sym, [nan |-> model.rate.nan,
                                 v |-> RateMilli * 100]),
                      fmt2(sym, sub) >>
            /\ config.include_vat = Bool(TRUE) =>
                   /\ SubSeq(table.headers, 4, Len(table.headers)) =
                          <<"Amount", "VAT (20%)", "Total Amount">>
                   /\ Len(table.row) = 6
                   /\ table.row[5] = fmt2(sym, vat)
                   /\ table.row[6] = fmt2(sym, model.total_amount)
            /\ config.include_vat \in {Absent, Bool(FALSE)} =>
                   /\ SubSeq(table.headers, 4, Len(table.headers)) =
                          <<"Total Amount">>
                   /\ Len(table.row) = 4

\* C8's case: a table with the VAT columns.
C8_Witness ==
    /\ table.built
    /\ config.include_vat = Bool(TRUE)
    /\ Len(table.headers) = 6
    /\ table.row[6] = table.amount_due

\* The labels the specification gives for a unit_of_work.
LabelsFor(w) ==
    IF w = Str("DAILY") THEN <<"Number of Days", "Daily Rate">>
    ELSE IF w = Str("WEEKLY") THEN <<"Number of Weeks", "Weekly Rate">>
    ELSE IF w = Str("MONTHLY") THEN <<"Number of Months", "Monthly Rate">>
    ELSE <<"Number of Hours", "Hourly Rate">>

\* C9: the unit and rate header labels are a total function of
\* unit_of_work: the fixed labels for DAILY, WEEKLY and MONTHLY, and the
\* hourly labels for every other value (HOURLY, an unrecognized value, an
\* absent key), without an error: when lines 74-101 have run, the labels
\* are these, unless the currency lookup of line 82, which comes first,
\* raised for the currency; nothing is raised for a unit_of_work.
C9_UnitLabels ==
    "build_model" \in ran =>
        IF "build_elements" \notin ran /\ pc = "exit"
        THEN /\ config.currency.kind = "list"
             /\ log = <<Entry("ERROR", "Unexpected error", "unhashable type", "")>>
        ELSE /\ model.unit_header = LabelsFor(config.unit_of_work)[1]
             /\ model.rate_header = LabelsFor(config.unit_of_work)[2]

\* C9's case: an unrecognized unit_of_work has given the hourly labels.
C9_Witness ==
    /\ "build_model" \in ran
    /\ config.unit_of_work \in {Str("daily"), Num(5000)}
    /\ model.unit_header = "Number of Hours"
    /\ model.rate_header = "Hourly Rate"

\* The symbol the specification gives for a currency setting.
SymbolFor(c) ==
    IF c = Str("GBP") THEN "GBP-sign"
    ELSE IF c = Str("EUR") THEN "EUR-sign"
    ELSE "$"

\* C10, as claimed: the currency symbol is a total function of the currency
\* setting: "$" for USD, the pound sign for GBP, the euro sign for EUR, and
\* "$" for every other value and for an absent key, without an error; the
\* same symbol prefixes every formatted amount.
C10_CurrencySymbol ==
    "build_model" \in ran =>
        /\ model.currency_symbol = SymbolFor(config.currency)
        /\ table.built =>
               /\ table.amount_due.sym = SymbolFor(config.currency)
               /\ \A i \in 3..Len(table.row) :
                      table.row[i].sym = SymbolFor(config.currency)

====
